---- MODULE Spec2Model ----
(***************************************************************************)
(* Model of velbin/binaries.py: the OrbitalParameters record array, its    *)
(* three draw operations and its four read operations.                     *)
(*                                                                         *)
(* Numbers.  The source computes in IEEE doubles.  The model uses two      *)
(* integer encodings of a real x:                                          *)
(*   - "fixed":  the integer nearest SC * x; used for angles, phases,      *)
(*     eccentricities, mass ratios, uniform draws and logarithms;          *)
(*   - "log" :   a record [s, l] with s the sign (-1, 0, 1; 2 = NaN,        *)
(*     3 = +inf) and l the fixed encoding of log10|x|; used for periods,   *)
(*     velocities, bin edges and densities, whose range exceeds 32 bits.   *)
(* Fx* operators take and return fixed numbers, L* operators log numbers.  *)
(***************************************************************************)
EXTENDS Integers, Sequences, FiniteSets, TLC

SC == 10000

Pi == 31416

TwoPi == 62832

HalfPi == 15708

Ln2 == 6931

Ln10 == 23026

Abs(x) == IF x < 0 THEN -x ELSE x

Sgn(x) == IF x < 0 THEN -1 ELSE IF x = 0 THEN 0 ELSE 1

(* a * b on fixed numbers, split so that no partial product overflows *)
FxMulWide(x, y) ==
  (x \div SC) * (y \div SC) * SC + (x \div SC) * (y % SC) + (x % SC) * (y \div SC)
    + ((x % SC) * (y % SC)) \div SC

(* a * b on fixed numbers *)
FxMul(a, b) ==
  IF a > -46340 /\ a < 46340 /\ b > -46340 /\ b < 46340
  THEN (a * b) \div SC
  ELSE Sgn(a) * Sgn(b) * FxMulWide(Abs(a), Abs(b))

RECURSIVE DivDigits(_, _, _)
DivDigits(r, y, k) ==
  IF k = 0 THEN 0
  ELSE (((r * 10) \div y) * (10 ^ (k - 1))) + DivDigits((r * 10) % y, y, k - 1)

(* a / b on fixed numbers, b # 0 *)
FxDiv(a, b) ==
  IF a > -214748 /\ a < 214748
  THEN (a * SC) \div b
  ELSE Sgn(a) * Sgn(b) * ((Abs(a) \div Abs(b)) * SC + DivDigits(Abs(a) % Abs(b), Abs(b), 4))

RECURSIVE ISqrtIter(_, _)
ISqrtIter(n, g) ==
  IF (g + n \div g) \div 2 >= g THEN g ELSE ISqrtIter(n, (g + n \div g) \div 2)

(* a first guess not below the root *)
ISqrtGuess(n) ==
  IF n < 1024 THEN 32 ELSE IF n < 65536 THEN 256 ELSE IF n < 4194304 THEN 2048
  ELSE IF n < 268435456 THEN 16384 ELSE 46341

ISqrt(n) == IF n < 2 THEN n ELSE ISqrtIter(n, ISqrtGuess(n))

(* sqrt on fixed numbers, a >= 0 *)
FxSqrt(a) == IF a < 200000 THEN ISqrt(a * SC) ELSE ISqrt(a) * 100

(* sin on [0, pi/2] by its Taylor polynomial up to x^9; x2 is x * x *)
SinHorner(x, x2) ==
  (x * (SC - (x2 * (SC - (x2 * (SC - (x2 * (SC - x2 \div 72)) \div (42 * SC)))
                          \div (20 * SC))) \div (6 * SC))) \div SC

SinPoly(x) == SinHorner(x, (x * x) \div SC)

(* an angle of [0, 2 pi) folded to the angle of [-pi/2, pi/2] with its sine *)
SinFold(r) ==
  IF r <= HalfPi THEN r ELSE IF r <= Pi + HalfPi THEN Pi - r ELSE r - TwoPi

SinOdd(y) == IF y < 0 THEN -SinPoly(-y) ELSE SinPoly(y)

FxSin(x) == SinOdd(SinFold(x % TwoPi))

FxCos(x) == FxSin(x + HalfPi)

(* exp on [0, ln 2) by its Taylor polynomial up to r^6 *)
ExpPoly(r) ==
  SC + (r * (SC + (r * (SC + (r * (SC + (r * (SC + (r * (SC + r \div 6)) \div (5 * SC)))
                                        \div (4 * SC))) \div (3 * SC))) \div (2 * SC))) \div SC

(* m * 2 ** j *)
ExpScale(j, m) ==
  IF j < -30 THEN 0 ELSE IF j >= 0 THEN m * (2 ^ j) ELSE m \div (2 ^ (-j))

(* exp on fixed numbers; the result underflows to 0 and must fit 31 bits *)
FxExp(y) == ExpScale(y \div Ln2, ExpPoly(y % Ln2))

(* m * 10 ** k *)
Pow10Scale(k, m) ==
  IF k < -9 THEN 0 ELSE IF k >= 0 THEN m * (10 ^ k) ELSE m \div (10 ^ (-k))

(* 10 ** l as a fixed number *)
FxPow10(l) == Pow10Scale(l \div SC, FxExp(((l % SC) * Ln10) \div SC))

(* 2 * atanh(t) for t in [0, 1/3]; t2 is t * t *)
LnHorner(t, t2) ==
  2 * ((t * (SC + (t2 * (SC \div 3 + (t2 * (SC \div 5 + (t2 * (SC \div 7)) \div SC)) \div SC))
                   \div SC)) \div SC)

LnAtanh(t) == LnHorner(t, (t * t) \div SC)

(* ln on [1, 2) by 2 * atanh((m - 1) / (m + 1)) *)
LnPoly(m) == LnAtanh(((m - SC) * SC) \div (m + SC))

RECURSIVE LnNorm(_, _)
LnNorm(m, acc) ==
  IF m >= 2 * SC THEN LnNorm(m \div 2, acc + Ln2) ELSE acc + LnPoly(m)

RECURSIVE Log10Norm(_, _)
Log10Norm(n, k) ==
  IF n >= 10 * SC THEN Log10Norm(n \div 10, k + 1)
  ELSE IF n < SC THEN Log10Norm(n * 10, k - 1)
  ELSE k * SC + (LnNorm(n, 0) * SC) \div Ln10

(* log10 of a fixed number n > 0, as a fixed number *)
FxLog10(n) == Log10Norm(n, 0)

(* x ** a as Python computes it for x >= 0, a >= 0: x ** 0 = 1, 0 ** a = 0, *)
(* x ** 1 = x                                                           *)
FxPow(x, a) ==
  IF a = 0 THEN SC
  ELSE IF x = 0 THEN 0
  ELSE IF a = SC THEN x
  ELSE FxPow10(FxMul(a, FxLog10(x)))

(* the one element of a singleton set: {F(v) : v \in {e}} has e computed    *)
(* before F is                                                             *)
Only(S) == CHOOSE x \in S : TRUE

(* the array f with every entry computed once *)
RECURSIVE ArrTo(_, _)
ArrTo(f, n) == IF n = 0 THEN <<>> ELSE Append(ArrTo(f, n - 1), f[n])

Arr(f) == ArrTo(f, Cardinality(DOMAIN f))

(* arctan on [-0.4142, 0.4142] by its Taylor polynomial up to t^9; t2 is t * t *)
AtanHorner(t, t2) ==
  (t * (SC - (t2 * (SC \div 3 - (t2 * (SC \div 5 - (t2 * (SC \div 7 - t2 \div 9)) \div SC))
                    \div SC)) \div SC)) \div SC

AtanPoly(t) == AtanHorner(t, (t * t) \div SC)

(* arctan on [0, 1]: arctan x = pi/4 + arctan((x - 1) / (x + 1)) above tan(pi/8) *)
FxAtan01(x) ==
  (IF x > 4142 THEN Pi \div 4 ELSE 0)
    + AtanPoly(IF x > 4142 THEN ((x - SC) * SC) \div (x + SC) ELSE x)

(* tanh of x >= 0 from em = exp(-2 x) *)
TanhOf(em) == ((SC - em) * SC) \div (SC + em)

(* tanh(x) = sign(x) * (1 - e^-2|x|) / (1 + e^-2|x|) *)
FxTanh(x) == Sgn(x) * TanhOf(FxExp(-2 * Abs(x)))

(***************************************************************************)
(* Log numbers.                                                            *)
(***************************************************************************)
LZero == [s |-> 0, l |-> 0]

LOne == [s |-> 1, l |-> 0]

LNaN == [s |-> 2, l |-> 0]

LInf == [s |-> 3, l |-> 0]

LIsNum(a) == a.s \in {-1, 0, 1}

LFromFx(x) == IF x = 0 THEN LZero ELSE [s |-> Sgn(x), l |-> FxLog10(Abs(x))]

(* 10. ** x for a fixed number x *)
LPow10(x) == [s |-> 1, l |-> x]

(* the fixed number nearest a log number; it must fit 31 bits *)
LToFx(a) == a.s * FxPow10(a.l)

LNeg(a) == IF LIsNum(a) THEN [s |-> -a.s, l |-> a.l] ELSE a

LAbs(a) == IF LIsNum(a) THEN [s |-> Abs(a.s), l |-> a.l] ELSE a

LMul(a, b) ==
  IF a.s = 2 \/ b.s = 2 THEN LNaN
  ELSE IF a.s = 3 \/ b.s = 3 THEN (IF a.s = 0 \/ b.s = 0 THEN LNaN ELSE LInf)
  ELSE IF a.s = 0 \/ b.s = 0 THEN LZero
  ELSE [s |-> a.s * b.s, l |-> a.l + b.l]

(* IEEE division: x / 0 = inf, 0 / 0 = nan, x / inf = 0 *)
LDiv(a, b) ==
  IF a.s = 2 \/ b.s = 2 THEN LNaN
  ELSE IF b.s = 3 THEN (IF a.s = 3 THEN LNaN ELSE LZero)
  ELSE IF a.s = 3 THEN LInf
  ELSE IF b.s = 0 THEN (IF a.s = 0 THEN LNaN ELSE LInf)
  ELSE IF a.s = 0 THEN LZero
  ELSE [s |-> a.s * b.s, l |-> a.l - b.l]

(* hi + lo for numbers of magnitudes |hi| >= |lo| > 0, r = |lo / hi| *)
LAddRatio(hi, lo, r) ==
  IF hi.s = lo.s THEN [s |-> hi.s, l |-> hi.l + FxLog10(SC + r)]
  ELSE IF r >= SC THEN LZero
  ELSE [s |-> hi.s, l |-> hi.l + FxLog10(SC - r)]

LAddOrdered(hi, lo) == LAddRatio(hi, lo, FxPow10(lo.l - hi.l))

LAdd(a, b) ==
  IF a.s = 2 \/ b.s = 2 THEN LNaN
  ELSE IF a.s = 3 \/ b.s = 3 THEN LInf
  ELSE IF a.s = 0 THEN b
  ELSE IF b.s = 0 THEN a
  ELSE LAddOrdered(IF a.l >= b.l THEN a ELSE b, IF a.l >= b.l THEN b ELSE a)

LSub(a, b) == LAdd(a, LNeg(b))

LSq(a) == LMul(a, a)

(* x ** .5: nan for x < 0 *)
LSqrt(a) ==
  IF a.s = 2 \/ a.s = -1 THEN LNaN
  ELSE IF a.s = 3 \/ a.s = 0 THEN a
  ELSE [s |-> 1, l |-> a.l \div 2]

(* x ** (1. / 3.) for x >= 0 *)
LCbrt(a) ==
  IF a.s = 2 \/ a.s = -1 THEN LNaN
  ELSE IF a.s = 3 \/ a.s = 0 THEN a
  ELSE [s |-> 1, l |-> a.l \div 3]

(* a < b; false when either is nan *)
LLess(a, b) ==
  IF a.s = 2 \/ b.s = 2 THEN FALSE
  ELSE IF a.s = 3 THEN FALSE
  ELSE IF b.s = 3 THEN TRUE
  ELSE IF a.s # b.s THEN a.s < b.s
  ELSE IF a.s = 1 THEN a.l < b.l
  ELSE IF a.s = -1 THEN a.l > b.l
  ELSE FALSE

LLeq(a, b) ==
  IF a.s = 2 \/ b.s = 2 THEN FALSE ELSE (a = b \/ LLess(a, b))

(* arctan of a log number, as a fixed angle *)
LAtan(a) ==
  IF a.s = 0 THEN 0
  ELSE IF a.l <= 0 THEN a.s * FxAtan01(FxPow10(a.l))
  ELSE a.s * (HalfPi - FxAtan01(FxPow10(-a.l)))

(* sn / cs; where cos rounds to 0 the double is finite, ~1e16 *)
LTanOf(sn, cs) ==
  IF cs = 0 THEN [s |-> Sgn(sn), l |-> 16 * SC] ELSE LDiv(LFromFx(sn), LFromFx(cs))

(* tan of a fixed angle *)
LTan(x) == LTanOf(FxSin(x), FxCos(x))

(* arccos of a fixed number in [-1, 1] *)
FxAcos(x) ==
  IF x <= -SC THEN Pi
  ELSE IF x >= SC THEN 0
  ELSE 2 * LAtan(LSqrt(LDiv(LFromFx(SC - x), LFromFx(SC + x))))

(***************************************************************************)
(* The population: OrbitalParameters, a record array of NBin binaries.     *)
(***************************************************************************)
NBin == 2

VARIABLES period, mass_ratio, eccentricity, phase, theta, inclination, ret

vars == <<period, mass_ratio, eccentricity, phase, theta, inclination, ret>>

fields == <<period, mass_ratio, eccentricity, phase, theta, inclination>>

Idx == 1..NBin

(* 365.25, the days of a year, as a log number *)
DaysPerYear == LFromFx(3652500)

Name(n) == [kind |-> "name", name |-> n]

Array(v) == [kind |-> "array", value |-> v]

Num(x) == [kind |-> "num", value |-> x]

None == [kind |-> "none"]

IsNone(x) == x.kind = "none"

(* isinstance(x, basestring) *)
IsString(x) == x.kind = "name"

(* x in (names...): true for a string among the names *)
IsNamed(x, names) == x.kind = "name" /\ x.name \in names

(* OrbitalParameters.__new__: ones, eccentricity 0, three random fields *)
New(r1, r2, r3) ==
  [period       |-> [i \in Idx |-> LOne],
   mass_ratio   |-> [i \in Idx |-> SC],
   eccentricity |-> [i \in Idx |-> 0],
   phase        |-> [i \in Idx |-> r1[i]],
   theta        |-> [i \in Idx |-> FxMul(r2[i] * 2, Pi)],
   inclination  |-> [i \in Idx |-> FxAcos(r3[i] * 2 - SC)]]

(* the record array as one value *)
self ==
  [period |-> period, mass_ratio |-> mass_ratio, eccentricity |-> eccentricity,
   phase |-> phase, theta |-> theta, inclination |-> inclination]

(* log_p_mean, sigma_log_p of the log-normal presets *)
LogNormalParams(name) ==
  IF name = "Raghavan10" THEN [log_p_mean |-> 50300, sigma_log_p |-> 22800]
  ELSE [log_p_mean |-> 48000, sigma_log_p |-> 23000]

(* slope, pmin, pmax_def of the log-powerlaw presets *)
PeriodPowerLawParams(name) ==
  IF name = "Sana12" THEN [slope |-> -5500, pmin |-> 1500, pmax_def |-> 35000]
  ELSE IF name = "Sana13" THEN [slope |-> -4500, pmin |-> 1500, pmax_def |-> 35000]
  ELSE [slope |-> 1000, pmin |-> 0, pmax_def |-> 30000]

(* truncnorm.rvs(a, b): a value of [a, b]; t in [0, 1] is where it falls *)
TruncNormRvs(a, b, t) == a + FxMul(t, b - a)

(* the log-normal draw of one period, in years *)
LogNormalPeriod(name, pmax, t) ==
  LET log_p_mean  == LogNormalParams(name).log_p_mean
      sigma_log_p == LogNormalParams(name).sigma_log_p
      a == FxDiv(-SC - log_p_mean, sigma_log_p)
      b == FxDiv(10 * SC - log_p_mean, sigma_log_p)
  IN  LDiv(LPow10(FxMul(TruncNormRvs(a, b, t), sigma_log_p) + log_p_mean), DaysPerYear)

(* the log-powerlaw draw of one period, in years *)
PowerLawPeriod(name, pmax, var) ==
  LET slope == PeriodPowerLawParams(name).slope
      pmin  == PeriodPowerLawParams(name).pmin
      pmx   == IF IsNone(pmax) THEN PeriodPowerLawParams(name).pmax_def
               ELSE FxLog10(FxMul(pmax.value, 3652500))
      lo    == FxPow(pmin, slope + SC)
      hi    == FxPow(pmx, slope + SC)
  IN  IF slope = -SC
      THEN LDiv(LPow10(FxMul(FxPow(pmin, SC - var), FxPow(pmx, var))), DaysPerYear)
      ELSE LDiv(LPow10(FxPow(FxMul(var, hi - lo) + lo, FxDiv(SC, slope + SC))), DaysPerYear)

(* draw_period(period, pmax); var are the call's random draws *)
DrawPeriod(arg, pmax, var) ==
  /\ IF IsNamed(arg, {"Raghavan10", "DM91"})
     THEN /\ period' = [i \in Idx |-> LogNormalPeriod(arg.name, pmax, var[i])]
          /\ ret' = [op |-> "draw_period", raised |-> "", arg |-> arg, pmax |-> pmax]
     ELSE IF IsNamed(arg, {"Sana12", "Sana13", "Kiminki12"})
     THEN /\ period' = [i \in Idx |-> PowerLawPeriod(arg.name, pmax, var[i])]
          /\ ret' = [op |-> "draw_period", raised |-> "", arg |-> arg, pmax |-> pmax]
     ELSE IF IsString(arg)
     THEN /\ period' = period
          /\ ret' = [op |-> "draw_period", raised |-> "ValueError", arg |-> arg, pmax |-> pmax]
     ELSE /\ period' = [i \in Idx |-> arg.value[i]]
          /\ ret' = [op |-> "draw_period", raised |-> "", arg |-> arg, pmax |-> pmax]
  /\ UNCHANGED <<mass_ratio, eccentricity, phase, theta, inclination>>

(* slope, qmin_def, qmax_def of the mass-ratio presets *)
MassRatioParams(name) ==
  IF name = "flat" THEN [slope |-> 0, qmin_def |-> 0, qmax_def |-> SC]
  ELSE IF name = "Reggiani13" THEN [slope |-> 2500, qmin_def |-> 1000, qmax_def |-> SC]
  ELSE IF name = "Sana12" THEN [slope |-> -1000, qmin_def |-> 1000, qmax_def |-> SC]
  ELSE IF name = "Sana13" THEN [slope |-> -SC, qmin_def |-> 1000, qmax_def |-> SC]
  ELSE [slope |-> 1000, qmin_def |-> 50, qmax_def |-> SC]

(* the draw of one mass ratio from a named preset *)
PowerLawMassRatio(name, qmin, qmax, var) ==
  LET slope == MassRatioParams(name).slope
      qmn   == IF IsNone(qmin) THEN MassRatioParams(name).qmin_def ELSE qmin.value
      qmx   == IF IsNone(qmax) THEN MassRatioParams(name).qmax_def ELSE qmax.value
      lo    == FxPow(qmn, slope + SC)
      hi    == FxPow(qmx, slope + SC)
  IN  IF slope = -SC
      THEN FxMul(FxPow(qmn, SC - var), FxPow(qmx, var))
      ELSE FxPow(FxMul(var, hi - lo) + lo, FxDiv(SC, slope + SC))

(* draw_mass_ratio checking the name only after the assignment *)
DrawMassRatioLateCheck(arg, qmin, qmax, var) ==
  /\ mass_ratio' = [i \in Idx |-> IF IsString(arg)
                                   THEN PowerLawMassRatio(arg.name, qmin, qmax, var[i])
                                   ELSE arg.value[i]]
  /\ ret' = [op |-> "draw_mass_ratio",
             raised |-> IF IsString(arg) /\ ~IsNamed(arg, {"flat", "Reggiani13", "Sana12",
                                                          "Sana13", "Kiminki12"})
                        THEN "ValueError" ELSE "",
             arg |-> arg, qmin |-> qmin, qmax |-> qmax]
  /\ UNCHANGED <<period, eccentricity, phase, theta, inclination>>

(* draw_mass_ratio(mass_ratio, qmin, qmax) *)
DrawMassRatio(arg, qmin, qmax, var) ==
  /\ IF IsNamed(arg, {"flat", "Reggiani13", "Sana12", "Sana13", "Kiminki12"})
     THEN /\ mass_ratio' = [i \in Idx |-> PowerLawMassRatio(arg.name, qmin, qmax, var[i])]
          /\ ret' = [op |-> "draw_mass_ratio", raised |-> "", arg |-> arg, qmin |-> qmin, qmax |-> qmax]
     ELSE IF IsString(arg)
     THEN /\ mass_ratio' = mass_ratio
          /\ ret' = [op |-> "draw_mass_ratio", raised |-> "ValueError", arg |-> arg, qmin |-> qmin, qmax |-> qmax]
     ELSE /\ mass_ratio' = [i \in Idx |-> arg.value[i]]
          /\ ret' = [op |-> "draw_mass_ratio", raised |-> "", arg |-> arg, qmin |-> qmin, qmax |-> qmax]
  /\ UNCHANGED <<period, eccentricity, phase, theta, inclination>>

(* the tidal cap of one binary: max(emin, .5 * (0.95 + tanh(0.6 * log10(P days) - 1.7))) *)
TidalEmax(p, emin) ==
  LET logdays == LMul(p, DaysPerYear).l
      emax    == (9500 + FxTanh(FxMul(6000, logdays) - 17000)) \div 2
  IN  IF emax < emin THEN emin ELSE emax

(* the emax of binary i: the tidal cap, or the number given *)
EmaxOf(emax, emin, i) ==
  IF IsNamed(emax, {"tidal"}) THEN TidalEmax(period[i], emin) ELSE emax.value

(* the flat draw without the subtraction of emin from the width *)
FlatEccentricityFullWidth(emin, emax, var) == FxMul(var, emax) + emin

FlatEccentricity(emin, emax, var) == FxMul(var, emax - emin) + emin

ThermalEccentricity(emin, emax, var) ==
  FxSqrt(FxMul(var, FxMul(emax, emax) - FxMul(emin, emin)) + FxMul(emin, emin))

(* draw_eccentricities converting self['period'] to days in place for the  *)
(* tidal cap                                                               *)
DrawEccentricitiesDaysInPlace(arg, emin, emax, var) ==
  /\ IF IsNamed(arg, {"flat"})
     THEN /\ eccentricity' = [i \in Idx |-> FlatEccentricity(emin, EmaxOf(emax, emin, i), var[i])]
          /\ ret' = [op |-> "draw_eccentricities", raised |-> "", arg |-> arg, emin |-> emin, emax |-> emax]
     ELSE IF IsNamed(arg, {"thermal"})
     THEN /\ eccentricity' = [i \in Idx |-> ThermalEccentricity(emin, EmaxOf(emax, emin, i), var[i])]
          /\ ret' = [op |-> "draw_eccentricities", raised |-> "", arg |-> arg, emin |-> emin, emax |-> emax]
     ELSE IF IsString(arg)
     THEN /\ eccentricity' = eccentricity
          /\ ret' = [op |-> "draw_eccentricities", raised |-> "ValueError", arg |-> arg, emin |-> emin, emax |-> emax]
     ELSE /\ eccentricity' = [i \in Idx |-> arg.value[i]]
          /\ ret' = [op |-> "draw_eccentricities", raised |-> "", arg |-> arg, emin |-> emin, emax |-> emax]
  /\ period' = IF IsNamed(emax, {"tidal"}) THEN [i \in Idx |-> LMul(period[i], DaysPerYear)]
                ELSE period
  /\ UNCHANGED <<mass_ratio, phase, theta, inclination>>

(* draw_eccentricities(eccentricity, emin, emax) *)
DrawEccentricities(arg, emin, emax, var) ==
  /\ IF IsNamed(arg, {"flat"})
     THEN /\ eccentricity' = [i \in Idx |-> FlatEccentricity(emin, EmaxOf(emax, emin, i), var[i])]
          /\ ret' = [op |-> "draw_eccentricities", raised |-> "", arg |-> arg, emin |-> emin, emax |-> emax]
     ELSE IF IsNamed(arg, {"thermal"})
     THEN /\ eccentricity' = [i \in Idx |-> ThermalEccentricity(emin, EmaxOf(emax, emin, i), var[i])]
          /\ ret' = [op |-> "draw_eccentricities", raised |-> "", arg |-> arg, emin |-> emin, emax |-> emax]
     ELSE IF IsString(arg)
     THEN /\ eccentricity' = eccentricity
          /\ ret' = [op |-> "draw_eccentricities", raised |-> "ValueError", arg |-> arg, emin |-> emin, emax |-> emax]
     ELSE /\ eccentricity' = [i \in Idx |-> arg.value[i]]
          /\ ret' = [op |-> "draw_eccentricities", raised |-> "", arg |-> arg, emin |-> emin, emax |-> emax]
  /\ UNCHANGED <<period, mass_ratio, phase, theta, inclination>>

(***************************************************************************)
(* velocity: the Kepler solver and the projection.                         *)
(***************************************************************************)
MaxIterations == 20

(* self[:m] *)
Slice(pop, m) ==
  [period       |-> [i \in 1..m |-> pop.period[i]],
   mass_ratio   |-> [i \in 1..m |-> pop.mass_ratio[i]],
   eccentricity |-> [i \in 1..m |-> pop.eccentricity[i]],
   phase        |-> [i \in 1..m |-> pop.phase[i]],
   theta        |-> [i \in 1..m |-> pop.theta[i]],
   inclination  |-> [i \in 1..m |-> pop.inclination[i]]]

Size(pop) == Len(pop.phase)

(* (self.phase + time / self.period) * 2. * sp.pi, of one binary *)
MeanAnomaly(ph, p, time) == FxMul(ph + LToFx(LDiv(LFromFx(time), p)), TwoPi)

(* one Newton-Raphson step of one binary *)
NewtonStep(E, e, M) ==
  E - FxDiv(E - FxMul(e, FxSin(E)) - M, SC - FxMul(e, FxCos(E)))

(* the while loop: all binaries step together until none moved by more *)
(* than anomaly_offset or count_iterations reached the cap              *)
RECURSIVE KeplerLoop(_, _, _, _, _, _)

(* the loop with the cap tested as count_iterations <= 20 *)
KeplerLoopOffByOne(ecc_anomaly, old, count_iterations, e, mean_anomaly, anomaly_offset) ==
  IF /\ \E i \in DOMAIN ecc_anomaly : Abs(ecc_anomaly[i] - old[i]) > anomaly_offset
     /\ count_iterations <= MaxIterations
  THEN KeplerLoop(Arr([i \in DOMAIN ecc_anomaly |-> NewtonStep(ecc_anomaly[i], e[i], mean_anomaly[i])]),
                  ecc_anomaly, count_iterations + 1, e, mean_anomaly, anomaly_offset)
  ELSE [ecc_anomaly |-> ecc_anomaly, old |-> old, count_iterations |-> count_iterations]

(* the loop stepping only the binaries that have not converged yet *)
KeplerLoopMasked(ecc_anomaly, old, count_iterations, e, mean_anomaly, anomaly_offset) ==
  IF /\ \E i \in DOMAIN ecc_anomaly : Abs(ecc_anomaly[i] - old[i]) > anomaly_offset
     /\ count_iterations < MaxIterations
  THEN KeplerLoop(Arr([i \in DOMAIN ecc_anomaly |->
                         IF Abs(ecc_anomaly[i] - old[i]) > anomaly_offset
                         THEN NewtonStep(ecc_anomaly[i], e[i], mean_anomaly[i])
                         ELSE ecc_anomaly[i]]),
                  Arr([i \in DOMAIN ecc_anomaly |->
                         IF Abs(ecc_anomaly[i] - old[i]) > anomaly_offset
                         THEN ecc_anomaly[i] ELSE old[i]]),
                  count_iterations + 1, e, mean_anomaly, anomaly_offset)
  ELSE [ecc_anomaly |-> ecc_anomaly, old |-> old, count_iterations |-> count_iterations]

KeplerLoop(ecc_anomaly, old, count_iterations, e, mean_anomaly, anomaly_offset) ==
  IF /\ \E i \in DOMAIN ecc_anomaly : Abs(ecc_anomaly[i] - old[i]) > anomaly_offset
     /\ count_iterations < MaxIterations
  THEN KeplerLoop(Arr([i \in DOMAIN ecc_anomaly |-> NewtonStep(ecc_anomaly[i], e[i], mean_anomaly[i])]),
                  ecc_anomaly, count_iterations + 1, e, mean_anomaly, anomaly_offset)
  ELSE [ecc_anomaly |-> ecc_anomaly, old |-> old, count_iterations |-> count_iterations]

(* lines 220-227: the loop started at ecc_anomaly = mean_anomaly, old = -1 *)
KeplerFrom(mean_anomaly, e, anomaly_offset) ==
  KeplerLoop(mean_anomaly, [i \in DOMAIN mean_anomaly |-> -SC], 0, e, mean_anomaly, anomaly_offset)

(* semi_major(mass) of one binary *)
SemiMajor(p, q, mass) == LCbrt(LMul(LMul(LSq(p), LFromFx(mass)), LFromFx(SC + q)))

(* theta_orb of one binary, line 229 *)
ThetaOrb(E, e) ==
  2 * LAtan(LMul(LSqrt(LDiv(LFromFx(SC + e), LFromFx(SC - e))), LTan(E \div 2)))

(* seperation, line 230 *)
Seperation(e, theta_orb) ==
  LDiv(LFromFx(SC - FxMul(e, e)), LFromFx(SC + FxMul(e, FxCos(theta_orb))))

(* thdot, line 231 *)
Thdot(e, seperation) ==
  LDiv(LMul(LFromFx(TwoPi), LSqrt(LFromFx(SC - FxMul(e, e)))), LSq(seperation))

(* rdot, line 232 *)
Rdot(e, theta_orb, seperation, thdot) ==
  LDiv(LMul(LMul(LMul(seperation, LFromFx(e)), thdot), LFromFx(FxSin(theta_orb))),
       LFromFx(SC + FxMul(e, FxCos(theta_orb))))

(* vlos before scaling, line 235; vtan is thdot * seperation *)
Vlos(vtan, rdot, dtheta, inc) ==
  LMul(LAdd(LMul(vtan, LFromFx(FxSin(dtheta))), LMul(rdot, LFromFx(FxCos(dtheta)))),
       LFromFx(FxSin(inc)))

(* semi_major(mass) / (period * (1 + 1 / mass_ratio)) * 4.74057581, line 237 *)
Scale(p, q, mass) ==
  LMul(LDiv(SemiMajor(p, q, mass), LMul(p, LAdd(LOne, LDiv(LOne, LFromFx(q))))),
       LFromFx(47406))

(* lines 234-237 from the two velocity components in the orbital plane *)
ProjectPlane(vtan, rdot, vlos, scale) ==
  [vlos  |-> LMul(vlos, scale),
   vperp |-> LMul(LSqrt(LSub(LAdd(LSq(vtan), LSq(rdot)), LSq(vlos))), scale)]

ProjectRates(vtan, rdot, dtheta, inc, scale) ==
  Only({ProjectPlane(vtan, rdot, vlos, scale) : vlos \in {Vlos(vtan, rdot, dtheta, inc)}})

ProjectThdot(e, theta_orb, seperation, thdot, th, inc, scale) ==
  Only({ProjectRates(vtan, rdot, th - theta_orb, inc, scale) :
          vtan \in {LMul(thdot, seperation)},
          rdot \in {Rdot(e, theta_orb, seperation, thdot)}})

ProjectSeperation(e, theta_orb, seperation, th, inc, scale) ==
  Only({ProjectThdot(e, theta_orb, seperation, thdot, th, inc, scale) :
          thdot \in {Thdot(e, seperation)}})

ProjectTheta(e, theta_orb, th, inc, scale) ==
  Only({ProjectSeperation(e, theta_orb, seperation, th, inc, scale) :
          seperation \in {Seperation(e, theta_orb)}})

(* lines 229-237 for one binary: [vlos, vperp] in km/s *)
Project(E, p, q, e, th, inc, mass) ==
  Only({ProjectTheta(e, theta_orb, th, inc, scale) :
          theta_orb \in {ThetaOrb(E, e)}, scale \in {Scale(p, q, mass)}})

(* the (2, N) array velocity returns, with the loop's last state *)
VelocityRows(k, v) ==
  [vlos |-> Arr([i \in DOMAIN v |-> v[i].vlos]), vperp |-> Arr([i \in DOMAIN v |-> v[i].vperp]),
   ecc_anomaly |-> k.ecc_anomaly, old |-> k.old, count_iterations |-> k.count_iterations]

VelocityFrom(pop, mass, k) ==
  VelocityRows(k, Arr([i \in DOMAIN pop.phase |->
                         Project(k.ecc_anomaly[i], pop.period[i], pop.mass_ratio[i],
                                 pop.eccentricity[i], pop.theta[i], pop.inclination[i], mass)]))

(* self.velocity(mass, time, anomaly_offset) on the record array pop: the  *)
(* loop runs to its end (k is its last state), then the projection         *)
VelocityOf(pop, mass, time, anomaly_offset) ==
  Only({VelocityFrom(pop, mass, k) :
          k \in {KeplerFrom(Arr([i \in DOMAIN pop.phase |->
                                    MeanAnomaly(pop.phase[i], pop.period[i], time)]),
                            pop.eccentricity, anomaly_offset)}})

(* velocity(mass, time, anomaly_offset) *)
Velocity(mass, time, anomaly_offset) ==
  /\ ret' = [op |-> "velocity", raised |-> "", mass |-> mass, time |-> time,
             anomaly_offset |-> anomaly_offset,
             out |-> VelocityOf(self, mass, time, anomaly_offset)]
  /\ UNCHANGED fields

(***************************************************************************)
(* single_epoch: the binned density of the population's speeds.            *)
(***************************************************************************)
RECURSIVE LSumTo(_, _)
LSumTo(sq, n) == IF n = 0 THEN LZero ELSE LAdd(LSumTo(sq, n - 1), sq[n])

(* sp.sum(sq) *)
LSum(sq) == LSumTo(sq, Cardinality(DOMAIN sq))

(* insert x into the ascending sequence sq; nan goes last, as sp.sort puts it *)
RECURSIVE Insert(_, _)
Insert(sq, x) ==
  IF Len(sq) = 0 THEN <<x>>
  ELSE IF x.s # 2 /\ (sq[1].s = 2 \/ LLess(x, sq[1])) THEN <<x>> \o sq
  ELSE <<sq[1]>> \o Insert(Tail(sq), x)

RECURSIVE Sort(_)
Sort(sq) == IF Len(sq) = 0 THEN <<>> ELSE Insert(Sort(Tail(sq)), sq[1])

Reverse(sq) == [i \in 1..Len(sq) |-> sq[Len(sq) + 1 - i]]

(* sp.cumsum(sq) *)
CumSum(sq) == [n \in 1..Len(sq) |-> LSumTo(sq, n)]

(* len(sp.arange(start, stop, step)) = ceil((stop - start) / step), step > 0 *)
ArangeLen(start, stop, step) ==
  IF stop <= start THEN 0 ELSE (stop - start + step - 1) \div step

(* 10 ** sp.arange(start, stop, step) *)
VBord(start, stop, step) ==
  Arr([k \in 1..ArangeLen(start, stop, step) |-> LPow10(start + (k - 1) * step)])

(* sp.searchsorted(vel, x): the number of entries of the sorted vel below x *)
SearchSorted(vel, x) == Cardinality({j \in 1..Len(vel) : LLess(vel[j], x)})

(* sp.append(-vbord[::-1], sp.append(0, vbord)) *)
VBound(vbord) ==
  [i \in 1..(2 * Len(vbord) + 1) |->
     IF i <= Len(vbord) THEN LNeg(vbord[Len(vbord) + 1 - i])
     ELSE IF i = Len(vbord) + 1 THEN LZero
     ELSE vbord[i - Len(vbord) - 1]]

(* sp.append(half[::-1], half) *)
Mirror(half) ==
  [j \in 1..(2 * Len(half)) |->
     IF j <= Len(half) THEN half[Len(half) + 1 - j] ELSE half[j - Len(half)]]

(* sp.sort(sp.sum(v ** 2., 0) ** .5) of the (N, 2) array v *)
SpeedsOf(v) ==
  Sort(Arr([i \in DOMAIN v.vlos |-> LSqrt(LAdd(LSq(v.vlos[i]), LSq(v.vperp[i])))]))

(* the sorted speeds vel of line 253 *)
Speeds(pop) == SpeedsOf(VelocityOf(pop, SC, 0, 10))

(* cum_weight of line 254 *)
CumWeight(vel) ==
  Arr(Reverse(CumSum(Arr([j \in 1..Len(vel) |-> LDiv(LOne, vel[Len(vel) + 1 - j])]))))

(* vbord of lines 255-257 *)
VBordOf(last, log_minv, log_maxv, log_stepv) ==
  IF IsNone(log_maxv)
  THEN (IF last.s = 1 THEN VBord(log_minv, last.l, log_stepv) ELSE <<>>)
  ELSE VBord(log_minv, log_maxv.value, log_stepv)

(* sp.sum((vuse - lower) / vuse) *)
TailSum(vuse, lower) == LSum([j \in 1..Len(vuse) |-> LDiv(LSub(vuse[j], lower), vuse[j])])

(* pdist[ix] with est inside the division by the bin width *)
PDistTailInside(vel, cum_weight, vbord, ixbound, ix) ==
  LDiv(LAdd(IF ixbound[ix] = Len(vel) THEN LZero ELSE cum_weight[ixbound[ix] + 1],
            TailSum(SubSeq(vel, (IF ix = 1 THEN 0 ELSE ixbound[ix - 1]) + 1, ixbound[ix]),
                    IF ix = 1 THEN LZero ELSE vbord[ix - 1])),
       LSub(vbord[ix], IF ix = 1 THEN LZero ELSE vbord[ix - 1]))

(* pdist[ix] of the loop of lines 262-275, ix counted from 1 *)
PDist(vel, cum_weight, vbord, ixbound, ix) ==
  LAdd(IF ixbound[ix] = Len(vel) THEN LZero ELSE cum_weight[ixbound[ix] + 1],
       LDiv(TailSum(SubSeq(vel, (IF ix = 1 THEN 0 ELSE ixbound[ix - 1]) + 1, ixbound[ix]),
                    IF ix = 1 THEN LZero ELSE vbord[ix - 1]),
            LSub(vbord[ix], IF ix = 1 THEN LZero ELSE vbord[ix - 1])))

(* vbound and prob of lines 277-278 *)
SingleEpochProb(vel, vbord, pdist) ==
  [vbound |-> Arr(VBound(vbord)),
   prob   |-> Arr([j \in 1..(2 * Len(pdist)) |->
                     LDiv(LDiv(Mirror(pdist)[j], LFromFx(2 * SC)), LFromFx(Len(vel) * SC))]),
   vel    |-> vel,
   pdist  |-> pdist]

SingleEpochBins(vel, cum_weight, vbord, ixbound) ==
  SingleEpochProb(vel, vbord,
                  Arr([ix \in 1..Len(vbord) |-> PDist(vel, cum_weight, vbord, ixbound, ix)]))

SingleEpochTable(vel, vbord) ==
  SingleEpochBins(vel, CumWeight(vel), vbord,
                  Arr([k \in 1..Len(vbord) |-> SearchSorted(vel, vbord[k])]))

(* the table single_epoch hands to fitter.BinaryFit: vbound and prob *)
SingleEpochOf(vel, log_minv, log_maxv, log_stepv) ==
  SingleEpochTable(vel, VBordOf(vel[Len(vel)], log_minv, log_maxv, log_stepv))

(* single_epoch on the sorted speeds vel: sp.arange fails on a nan or      *)
(* infinite log_maxv                                                       *)
SingleEpochFrom(vel, log_minv, log_maxv, log_stepv) ==
  /\ IF IsNone(log_maxv) /\ vel[Len(vel)].s \in {2, 3}
     THEN ret' = [op |-> "single_epoch", raised |-> "ValueError", log_minv |-> log_minv,
                  log_maxv |-> log_maxv, log_stepv |-> log_stepv]
     ELSE ret' = [op |-> "single_epoch", raised |-> "", log_minv |-> log_minv,
                  log_maxv |-> log_maxv, log_stepv |-> log_stepv,
                  out |-> SingleEpochOf(vel, log_minv, log_maxv, log_stepv)]
  /\ UNCHANGED fields

(* single_epoch(velocity, sigvel, mass, log_minv, log_maxv, log_stepv); the  *)
(* observed velocity, sigvel and mass go to fitter.BinaryFit untouched     *)
SingleEpoch(log_minv, log_maxv, log_stepv) ==
  SingleEpochFrom(Speeds(self), log_minv, log_maxv, log_stepv)

(***************************************************************************)
(* multi_epoch: the variability test and the per-star histograms.          *)
(***************************************************************************)
(* t * (a1 + t * (a2 + ...)) of Abramowitz & Stegun 7.1.26 *)
ErfcPoly(t) ==
  (t * (2548 + (t * (-2845 + (t * (14214 + (t * (-14532 + (t * 10614) \div SC)) \div SC))
                              \div SC)) \div SC)) \div SC

(* erfc(z), z >= 0, by Abramowitz & Stegun 7.1.26 *)
FxErfc(z) ==
  IF z > 60000 THEN 0
  ELSE FxMul(ErfcPoly((SC * SC) \div (SC + (3276 * z) \div SC)), FxExp(-FxMul(z, z)))

(* gamma(dof / 2) *)
RECURSIVE GammaHalf(_)
GammaHalf(dof) ==
  IF dof = 1 THEN 17725
  ELSE IF dof = 2 THEN SC
  ELSE FxMul(((dof - 2) * SC) \div 2, GammaHalf(dof - 2))

(* the chi-square survival function of a fixed x >= 0 *)
RECURSIVE FxChiSqProb(_, _)
FxChiSqProb(x, dof) ==
  IF dof = 1 THEN FxErfc(FxSqrt(x \div 2))
  ELSE IF dof = 2 THEN FxExp(-(x \div 2))
  ELSE FxChiSqProb(x, dof - 2)
       + FxDiv(FxMul(FxPow(x \div 2, ((dof - 2) * SC) \div 2), FxExp(-(x \div 2))), GammaHalf(dof))

(* sp.stats.chisqprob(chisq, dof) < pfalse; false for a nan chisq *)
ChiSqProbBelow(chisq, dof, pfalse) ==
  IF chisq.s = 2 THEN FALSE
  ELSE IF chisq.s = 3 \/ (chisq.s = 1 /\ chisq.l > 3 * SC) THEN 0 < pfalse
  ELSE FxChiSqProb(LToFx(chisq), dof) < pfalse

(* the entries of sq at the positions kept, in order *)
RECURSIVE Pick(_, _, _)
Pick(sq, keep, i) ==
  IF i > Len(sq) THEN <<>>
  ELSE (IF keep[i] THEN <<sq[i]>> ELSE <<>>) \o Pick(sq, keep, i + 1)

(* sp.histogram(x, bins = edges)[0]: bins are [lo, hi), the last [lo, hi] *)
Histogram(x, edges) ==
  Arr([j \in 1..(Len(edges) - 1) |->
     Cardinality({i \in 1..Len(x) :
        /\ LLeq(edges[j], x[i])
        /\ (LLess(x[i], edges[j + 1]) \/ (j = Len(edges) - 1 /\ x[i] = edges[j + 1]))})])

(* sp.unique(reduce(sp.append, dates)) as a set *)
UniqueDates(dates) == UNION {{dates[k][e] : e \in DOMAIN dates[k]} : k \in DOMAIN dates}

(* vbin[date]: self.velocity(1., time = date)[0] *)
VBin(pop, date) == VelocityOf(pop, SC, date, 10).vlos

(* sp.sum(x * weight) / sp.sum(weight) *)
WeightedMean(x, weight, sumw) ==
  LDiv(LSum([k \in DOMAIN weight |-> LMul(x[k], weight[k])]), sumw)

(* sp.sum((x - mean) ** 2. * weight) *)
ChiSq(x, mean, weight) ==
  LSum([k \in DOMAIN weight |-> LMul(LSq(LSub(x[k], mean)), weight[k])])

(* lines 335-340 *)
StarDetected(mult_vel, dof, pfalse, weight, sumw, rv_binoffset_per_epoch, isdetected, mean_rv) ==
  [mean_rv |-> mean_rv,
   mean_sig |-> LDiv(LOne, LSqrt(sumw)),
   rv_binoffset |-> Pick(Arr([i \in DOMAIN isdetected |->
                                WeightedMean(rv_binoffset_per_epoch[i], weight, sumw)]),
                         [i \in DOMAIN isdetected |-> ~isdetected[i]], 1),
   pdet |-> FxDiv(Cardinality({i \in DOMAIN isdetected : isdetected[i]}) * SC,
                  Len(isdetected) * SC),
   rvvariable |-> ChiSqProbBelow(ChiSq(mult_vel, mean_rv, weight), dof, pfalse)]

(* lines 332-334 *)
StarOffsets(mult_vel, dof, pfalse, weight, sumw, rv_binoffset_per_epoch, rv_offset_per_epoch) ==
  Only({StarDetected(mult_vel, dof, pfalse, weight, sumw, rv_binoffset_per_epoch, isdetected,
                     mean_rv) :
          isdetected \in
            {Arr([i \in DOMAIN rv_offset_per_epoch |->
                    ChiSqProbBelow(ChiSq(rv_offset_per_epoch[i],
                                         WeightedMean(rv_offset_per_epoch[i], weight, sumw),
                                         weight),
                                   dof, pfalse)])},
          mean_rv \in {WeightedMean(mult_vel, weight, sumw)}})

(* lines 326-331 *)
StarWeighted(vbin, n, mult_vel, mult_sigvel, pmass, epochs, pfalse, noise, weight) ==
  Only({StarOffsets(mult_vel, Len(epochs) - 1, pfalse, weight, sumw, rv_binoffset_per_epoch,
                    rv_offset_per_epoch) :
          sumw \in {LSum(weight)},
          rv_binoffset_per_epoch \in
            {Arr([i \in 1..n |-> Arr([k \in DOMAIN epochs |-> vbin[epochs[k]][i]])])},
          rv_offset_per_epoch \in
            {Arr([i \in 1..n |-> Arr([k \in DOMAIN epochs |->
                    LAdd(LMul(vbin[epochs[k]][i], LCbrt(LFromFx(pmass))),
                         LMul(LFromFx(noise[k][i]), mult_sigvel[k]))])])}})

(* the per-star body with the variability test applied to a star of one   *)
(* observation too: chisqprob(0, 0) = 1 against pfalse                    *)
StarTestedOnce(vbin, n, mult_vel, mult_sigvel, pmass, epochs, pfalse, noise) ==
  IF Len(epochs) = 1
  THEN [mean_rv |-> mult_vel[1], mean_sig |-> mult_sigvel[1],
        rv_binoffset |-> vbin[epochs[1]], pdet |-> 0, rvvariable |-> SC < pfalse]
  ELSE Only({StarWeighted(vbin, n, mult_vel, mult_sigvel, pmass, epochs, pfalse, noise, weight) :
               weight \in {Arr([k \in DOMAIN epochs |-> LDiv(LOne, LSq(mult_sigvel[k]))])}})

(* the body of the per-star loop, lines 318-340; n is self.size and      *)
(* noise[k] the k-th sp.randn(self.size) of the star; the velocities,    *)
(* uncertainties and dates of a star have one length, so that            *)
(* sp.broadcast_arrays leaves them as they are                           *)
Star(vbin, n, mult_vel, mult_sigvel, pmass, epochs, pfalse, noise) ==
  IF Len(epochs) = 1
  THEN [mean_rv |-> mult_vel[1], mean_sig |-> mult_sigvel[1],
        rv_binoffset |-> vbin[epochs[1]], pdet |-> 0, rvvariable |-> FALSE]
  ELSE Only({StarWeighted(vbin, n, mult_vel, mult_sigvel, pmass, epochs, pfalse, noise, weight) :
               weight \in {Arr([k \in DOMAIN epochs |-> LDiv(LOne, LSq(mult_sigvel[k]))])}})

(* prob_bin of line 348 mirrored and divided by the bin widths, line 349 *)
ProbBinRow(prob_bin, vbound) ==
  Arr([j \in 1..(2 * Len(prob_bin)) |->
         LDiv(LDiv(Mirror(prob_bin)[j], LFromFx(2 * SC)), LSub(vbound[j + 1], vbound[j]))])

(* the histogram row of a single star, lines 348-349 *)
ProbBin(rv_binoffset, vbord) ==
  ProbBinRow(Arr([j \in 1..Len(vbord) |->
                    LDiv(LFromFx(Histogram(Arr([i \in 1..Len(rv_binoffset) |-> LAbs(rv_binoffset[i])]),
                                           <<LZero>> \o vbord)[j] * SC),
                         LFromFx(Len(rv_binoffset) * SC))]),
             Arr(VBound(vbord)))

(* the appends with is_single.append inside the else branch *)
CollectFlagInElse(acc, st, pmass, vbord) ==
  IF st.rvvariable
  THEN [acc EXCEPT !.pdet_rvvar = Append(@, st.pdet)]
  ELSE [acc EXCEPT !.vmean = Append(@, st.mean_rv),
                   !.sigmean = Append(@, st.mean_sig),
                   !.pdet_single = Append(@, st.pdet),
                   !.single_mass = Append(@, pmass),
                   !.pbin = Append(@, ProbBin(st.rv_binoffset, vbord)),
                   !.is_single = Append(@, TRUE)]

(* lines 341-350: the star's entries appended to the output lists *)
Collect(acc, st, pmass, vbord) ==
  IF st.rvvariable
  THEN [acc EXCEPT !.pdet_rvvar = Append(@, st.pdet),
                   !.is_single = Append(@, FALSE)]
  ELSE [acc EXCEPT !.vmean = Append(@, st.mean_rv),
                   !.sigmean = Append(@, st.mean_sig),
                   !.pdet_single = Append(@, st.pdet),
                   !.single_mass = Append(@, pmass),
                   !.pbin = Append(@, ProbBin(st.rv_binoffset, vbord)),
                   !.is_single = Append(@, TRUE)]

(* the loop over the stars, lines 317-350, from star k on *)
RECURSIVE StarLoop(_, _, _, _, _, _, _, _, _, _, _)
StarLoop(vbin, n, velocity, sigvel, mass, dates, pfalse, noise, vbord, k, acc) ==
  IF k > Len(velocity) THEN acc
  ELSE Only({StarLoop(vbin, n, velocity, sigvel, mass, dates, pfalse, noise, vbord, k + 1,
                      Collect(acc, st, mass[k], vbord)) :
               st \in {Star(vbin, n, velocity[k], sigvel[k], mass[k], dates[k], pfalse,
                            noise[k])}})

(* sp.array(rows).T *)
Transpose(rows) ==
  IF Len(rows) = 0 THEN <<>>
  ELSE [j \in 1..Len(rows[1]) |-> [k \in 1..Len(rows) |-> rows[k][j]]]

(* lines 351-359: the arguments of fitter.BinaryFit *)
MultiEpochResult(vbord, acc) ==
  [vmean |-> acc.vmean, sigmean |-> acc.sigmean, single_mass |-> acc.single_mass,
   vbound |-> Arr(VBound(vbord)), pbin |-> Transpose(acc.pbin),
   pdet_single |-> acc.pdet_single, pdet_rvvar |-> acc.pdet_rvvar,
   is_single |-> acc.is_single]

MultiEpochLoop(vbin, n, velocity, sigvel, mass, dates, pfalse, noise, vbord) ==
  MultiEpochResult(vbord,
    StarLoop(vbin, n, velocity, sigvel, mass, dates, pfalse, noise, vbord, 1,
             [vmean |-> <<>>, sigmean |-> <<>>, single_mass |-> <<>>, pdet_single |-> <<>>,
              pdet_rvvar |-> <<>>, pbin |-> <<>>, is_single |-> <<>>]))

MinOf(S) == CHOOSE x \in S : \A y \in S : x <= y

(* the dictionary vbin of lines 303-305, filled date by date *)
RECURSIVE VBinTable(_, _, _)
VBinTable(pop, times, done) ==
  IF times = {} THEN done
  ELSE VBinTable(pop, times \ {MinOf(times)}, done @@ (MinOf(times) :> VBin(pop, MinOf(times))))

(* what multi_epoch hands to fitter.BinaryFit *)
MultiEpochOf(pop, velocity, sigvel, mass, dates, pfalse, noise, log_minv, log_maxv, log_stepv) ==
  Only({MultiEpochLoop(vbin, Size(pop), velocity, sigvel, mass, dates, pfalse, noise,
                       VBord(log_minv, log_maxv, log_stepv)) :
          vbin \in {VBinTable(pop, UniqueDates(dates), <<>>)}})

(* multi_epoch with the scalar mass already made [mass] * len(velocity) *)
MultiEpochWith(velocity, sigvel, mass, masses, dates, pfalse, noise, log_minv, log_maxv, log_stepv) ==
  /\ IF Len(sigvel) # Len(velocity) \/ Len(masses) # Len(velocity) \/ Len(dates) # Len(velocity)
     THEN ret' = [op |-> "multi_epoch", raised |-> "ValueError",
                  args |-> [velocity |-> velocity, sigvel |-> sigvel, mass |-> mass,
                            dates |-> dates, pfalse |-> pfalse]]
     ELSE ret' = [op |-> "multi_epoch", raised |-> "",
                  args |-> [velocity |-> velocity, sigvel |-> sigvel, mass |-> mass,
                            dates |-> dates, pfalse |-> pfalse],
                  out |-> MultiEpochOf(self, velocity, sigvel, masses, dates, pfalse, noise,
                                       log_minv, log_maxv, log_stepv)]
  /\ UNCHANGED fields

(* multi_epoch(velocity, sigvel, mass, dates, pfalse, log_minv, log_maxv,  *)
(* log_stepv); a scalar mass becomes [mass] * len(velocity)                *)
MultiEpoch(velocity, sigvel, mass, dates, pfalse, noise, log_minv, log_maxv, log_stepv) ==
  MultiEpochWith(velocity, sigvel, mass,
                 IF mass.kind = "num" THEN [k \in 1..Len(velocity) |-> mass.value] ELSE mass.value,
                 dates, pfalse, noise, log_minv, log_maxv, log_stepv)

(***************************************************************************)
(* fake_dataset: a synthetic catalogue from the first nvel binaries.       *)
(***************************************************************************)
(* sp.squeeze of a len(dates) x nvel matrix *)
Squeeze(m, nrows, ncols) ==
  IF nrows = 1 /\ ncols = 1 THEN m[1][1]
  ELSE IF nrows = 1 THEN m[1]
  ELSE IF ncols = 1 THEN [t \in 1..nrows |-> m[t][1]]
  ELSE m

(* line 384 *)
FakeDatasetSum(nvel, ndates, bin_index, v_systematic, v_bin_offset, v_meas_offset) ==
  [rv |-> Squeeze([t \in 1..ndates |-> [i \in 1..nvel |->
                     LAdd(LAdd(v_systematic[i], v_bin_offset[t][i]), v_meas_offset[t][i])]],
                  ndates, nvel),
   bin_index |-> bin_index, v_bin_offset |-> v_bin_offset, v_systematic |-> v_systematic,
   v_meas_offset |-> v_meas_offset]

(* the offsets of the flagged stars set to 0 instead of the others *)
VBinOffsetFlagged(orbit, bin_index) ==
  Arr([t \in DOMAIN orbit |->
         Arr([i \in DOMAIN bin_index |-> IF bin_index[i] THEN LZero ELSE orbit[t][i]])])

(* lines 381-382 *)
VBinOffset(orbit, bin_index) ==
  Arr([t \in DOMAIN orbit |->
         Arr([i \in DOMAIN bin_index |-> IF bin_index[i] THEN orbit[t][i] ELSE LZero])])

(* fake_dataset for nvel <= self.size; u is sp.rand(nvel), g1 the first    *)
(* sp.randn(nvel), g2 the sp.randn of the measurement offsets              *)
FakeDatasetOf(pop, nvel, vdisp, fbin, sigvel, mass, dates, u, g1, g2) ==
  Only({FakeDatasetSum(nvel, Len(dates), bin_index, v_systematic,
                       VBinOffset(orbit, bin_index), v_meas_offset) :
          bin_index \in {Arr([i \in 1..nvel |-> u[i] < fbin])},
          v_systematic \in {Arr([i \in 1..nvel |-> LMul(LFromFx(g1[i]), LFromFx(vdisp))])},
          orbit \in {Arr([t \in 1..Len(dates) |->
                            VelocityOf(Slice(pop, nvel), mass, dates[t], 10).vlos])},
          v_meas_offset \in {Arr([t \in 1..Len(dates) |->
                                    Arr([i \in 1..nvel |->
                                           LMul(LFromFx(g2[t][i]), LFromFx(sigvel))])])}})

(* fake_dataset(nvel, vdisp, fbin, sigvel, mass, dates); with nvel above   *)
(* self.size the mask ~bin_index does not fit v_bin_offset                 *)
FakeDataset(nvel, vdisp, fbin, sigvel, mass, dates, u, g1, g2) ==
  /\ IF nvel > NBin
     THEN ret' = [op |-> "fake_dataset", raised |-> "IndexError",
                  args |-> [nvel |-> nvel, vdisp |-> vdisp, fbin |-> fbin, sigvel |-> sigvel,
                            mass |-> mass, dates |-> dates]]
     ELSE ret' = [op |-> "fake_dataset", raised |-> "",
                  args |-> [nvel |-> nvel, vdisp |-> vdisp, fbin |-> fbin, sigvel |-> sigvel,
                            mass |-> mass, dates |-> dates],
                  out |-> FakeDatasetOf(self, nvel, vdisp, fbin, sigvel, mass, dates, u, g1, g2)]
  /\ UNCHANGED fields

(***************************************************************************)
(* Inputs the specifications enumerate.                                    *)
(***************************************************************************)
Alt(a, b) == [i \in Idx |-> IF i % 2 = 1 THEN a ELSE b]

(* outcomes of the three sp.rand calls of __new__ *)
PhaseVecs == {Alt(2500, 300), Alt(300, 2500)}

ThetaVecs == {Alt(2500, 7000)}

InclinationVecs == {Alt(7500, 2500)}

PeriodArray == Array([i \in Idx |-> LFromFx(2 * SC)])

MassRatioArray == Array(Alt(3000, 8000))

EccentricityArray == Array(Alt(5000, 9750))

PeriodNames == {"Raghavan10", "DM91", "Sana12", "Sana13", "Kiminki12"}

MassRatioNames == {"flat", "Reggiani13", "Sana12", "Sana13", "Kiminki12"}

L(x) == LFromFx(x)

(* observations of three stars: one epoch, two agreeing epochs, two        *)
(* disagreeing epochs                                                      *)
ObsThree ==
  [velocity |-> << <<L(50000)>>, <<L(30000), L(35000)>>, <<L(10000), L(300000)>> >>,
   sigvel   |-> << <<L(20000)>>, <<L(SC), L(SC)>>, <<L(SC), L(5000)>> >>,
   mass     |-> Num(SC),
   dates    |-> << <<0>>, <<0, 5000>>, <<0, 2100>> >>]

(* two stars with one epoch each, masses given per star *)
ObsOnce ==
  [velocity |-> << <<L(-20000)>>, <<L(70000)>> >>,
   sigvel   |-> << <<L(5000)>>, <<L(20000)>> >>,
   mass     |-> Array(<<SC, 2 * SC>>),
   dates    |-> << <<0>>, <<5000>> >>]

(* two stars with three epochs each *)
ObsThrice ==
  [velocity |-> << <<L(-50000), L(60000), L(10000)>>, <<L(10000), L(12000), L(9000)>> >>,
   sigvel   |-> << <<L(SC), L(SC), L(SC)>>, <<L(SC), L(SC), L(SC)>> >>,
   mass     |-> Num(SC),
   dates    |-> << <<0, 2100, 5000>>, <<0, 2100, 5000>> >>]

(* sigvel one entry short of velocity *)
ObsShort ==
  [velocity |-> << <<L(50000)>>, <<L(30000), L(35000)>> >>,
   sigvel   |-> << <<L(SC)>> >>,
   mass     |-> Num(SC),
   dates    |-> << <<0>>, <<0, 5000>> >>]

(* the sp.randn(self.size) calls of star k, epoch e *)
NoiseOf(obs, na, nb) ==
  [k \in 1..Len(obs.dates) |-> [e \in 1..Len(obs.dates[k]) |-> IF e % 2 = 1 THEN na ELSE nb]]

(***************************************************************************)
(* Specifications.                                                         *)
(***************************************************************************)
(* OrbitalParameters(nbinaries) *)
Init ==
  \E r1 \in PhaseVecs, r2 \in ThetaVecs, r3 \in InclinationVecs :
    /\ period = New(r1, r2, r3).period
    /\ mass_ratio = New(r1, r2, r3).mass_ratio
    /\ eccentricity = New(r1, r2, r3).eccentricity
    /\ phase = New(r1, r2, r3).phase
    /\ theta = New(r1, r2, r3).theta
    /\ inclination = New(r1, r2, r3).inclination
    /\ ret = [op |-> "new", raised |-> ""]

DrawPeriodCall(args, pmaxs, vecs) ==
  \E arg \in args, pmax \in pmaxs, var \in vecs : DrawPeriod(arg, pmax, var)

DrawMassRatioCall(args, vecs) ==
  \E arg \in args, var \in vecs : DrawMassRatio(arg, None, None, var)

DrawEccentricitiesCall(args, emins, emaxs, vecs) ==
  \E arg \in args, emin \in emins, emax \in emaxs, var \in vecs :
    DrawEccentricities(arg, emin, emax, var)

VelocityCall(times, offsets) ==
  \E time \in times, anomaly_offset \in offsets : Velocity(SC, time, anomaly_offset)

SingleEpochCall(minvs, maxvs, steps) ==
  \E log_minv \in minvs, log_maxv \in maxvs, log_stepv \in steps :
    SingleEpoch(log_minv, log_maxv, log_stepv)

MultiEpochCall(inputs, pfalses, noises) ==
  \E obs \in inputs, pfalse \in pfalses, nz \in noises :
    MultiEpoch(obs.velocity, obs.sigvel, obs.mass, obs.dates, pfalse,
               NoiseOf(obs, nz[1], nz[2]), -SC, 2 * SC, SC)

FakeDatasetCall(nvels, fbins, dateses, us, gs) ==
  \E nvel \in nvels, fbin \in fbins, dates \in dateses, u \in us, g \in gs :
    FakeDataset(nvel, 20000, fbin, 5000, SC, dates, u, g, [t \in 1..Len(dates) |-> g])

(* fake_dataset with the dispersion and the uncertainty of the call given  *)
(* as a pair                                                              *)
FakeDatasetCallWith(nvels, scales, fbins, dateses, us, gs) ==
  \E nvel \in nvels, sc \in scales, fbin \in fbins, dates \in dateses, u \in us, g \in gs :
    FakeDataset(nvel, sc[1], fbin, sc[2], SC, dates, u, g, [t \in 1..Len(dates) |-> g])

(* the life of one population: any call after any call *)
Next ==
  \/ DrawPeriodCall({Name("Raghavan10"), Name("Gauss"), PeriodArray}, {None}, {Alt(0, 5000)})
  \/ DrawMassRatioCall({Name("flat"), Name("Gauss"), MassRatioArray}, {Alt(0, 5000)})
  \/ DrawEccentricitiesCall({Name("flat"), Name("Gauss"), EccentricityArray},
                            {0}, {Name("tidal")}, {Alt(0, 5000)})
  \/ DrawEccentricitiesCall({Name("thermal")}, {0}, {Num(9000)}, {Alt(0, 5000)})
  \/ VelocityCall({0, 2100}, {10})
  \/ SingleEpochCall({-SC}, {None}, {5000})
  \/ MultiEpochCall({ObsThree}, {500}, {<<Alt(-2 * SC, 2 * SC), Alt(2 * SC, -2 * SC)>>})
  \/ FakeDatasetCall({NBin - 1, NBin + 1}, {5000}, {<<0, 2100>>}, {Alt(0, 5000)},
                     {Alt(-2 * SC, 2 * SC)})

Spec == Init /\ [][Next]_vars

(* the draws alone, over every preset *)
NextDraw ==
  \/ DrawPeriodCall({Name(n) : n \in PeriodNames} \cup {Name("Gauss")}, {None}, {Alt(0, 5000)})
  \/ DrawPeriodCall({Name("Raghavan10"), Name("DM91"), Name("Sana12")}, {Num(SC)}, {Alt(0, 5000)})
  \/ DrawMassRatioCall({Name(n) : n \in MassRatioNames} \cup {Name("Gauss")}, {Alt(0, 5000)})
  \/ DrawMassRatioCall({Name("flat")}, {Alt(9999, 0)})
  \/ DrawEccentricitiesCall({Name("flat"), Name("thermal"), Name("Gauss")}, {0, 1000},
                            {Name("tidal")}, {Alt(9999, 5000), Alt(0, 9999)})

SpecDraw == Init /\ [][NextDraw]_vars

(* multi_epoch over many catalogues, on a population of two orbits *)
NextMulti ==
  \/ DrawPeriodCall({PeriodArray}, {None}, {Alt(0, 5000)})
  \/ DrawMassRatioCall({MassRatioArray}, {Alt(0, 5000)})
  \/ DrawEccentricitiesCall({EccentricityArray}, {0}, {Name("tidal")}, {Alt(0, 5000)})
  \/ MultiEpochCall({ObsThree, ObsOnce, ObsThrice, ObsShort}, {1, 500, 2 * SC},
                    {<<Alt(-2 * SC, 2 * SC), Alt(2 * SC, -2 * SC)>>, <<Alt(0, 0), Alt(0, 0)>>})

SpecMulti == Init /\ [][NextMulti]_vars

(* fake_dataset over binary fractions, scales, sizes and epochs *)
NextFake ==
  \/ DrawMassRatioCall({MassRatioArray}, {Alt(0, 5000)})
  \/ DrawEccentricitiesCall({EccentricityArray}, {0}, {Name("tidal")}, {Alt(0, 5000)})
  \/ FakeDatasetCallWith({1, NBin, NBin + 1}, {<<0, 0>>, <<20000, 5000>>}, {0, 5000, SC},
                         {<<0>>, <<0, 2100>>}, {Alt(0, 5000)}, {Alt(-2 * SC, 2 * SC)})

SpecFake == Init /\ [][NextFake]_vars

(***************************************************************************)
(* Properties.                                                             *)
(***************************************************************************)
ReadOps == {"velocity", "single_epoch", "multi_epoch", "fake_dataset"}

DrawOps == {"draw_period", "draw_mass_ratio", "draw_eccentricities"}

(* the presets an operation knows by name *)
Presets(op) ==
  IF op = "draw_period" THEN PeriodNames
  ELSE IF op = "draw_mass_ratio" THEN MassRatioNames
  ELSE {"flat", "thermal"}

(* C1: every operation keeps the size and phase, theta and inclination;   *)
(* period changes only in draw_period, mass_ratio only in draw_mass_ratio, *)
(* eccentricity only in draw_eccentricities; velocity, single_epoch,       *)
(* multi_epoch and fake_dataset change no field.                           *)
C1_Frame ==
  [][/\ phase' = phase /\ theta' = theta /\ inclination' = inclination
     /\ DOMAIN period' = Idx /\ DOMAIN mass_ratio' = Idx /\ DOMAIN eccentricity' = Idx
     /\ DOMAIN phase' = Idx
     /\ (period' # period => ret'.op = "draw_period")
     /\ (mass_ratio' # mass_ratio => ret'.op = "draw_mass_ratio")
     /\ (eccentricity' # eccentricity => ret'.op = "draw_eccentricities")
     /\ (ret'.op \in ReadOps => UNCHANGED fields)]_vars

(* a read operation returned on a population whose three drawable fields  *)
(* have all left their construction values                                 *)
C1_Witness ==
  /\ ret.op = "fake_dataset" /\ ret.raised = ""
  /\ \E i \in Idx : period[i] # LOne
  /\ \E i \in Idx : mass_ratio[i] # SC
  /\ \E i \in Idx : eccentricity[i] # 0

(* C2: a draw called with a string that is none of its presets raises     *)
(* ValueError and leaves all six fields as they were, emax = 'tidal'      *)
(* included.                                                               *)
C2_UnknownName ==
  [][(/\ ret'.op \in DrawOps
      /\ IsString(ret'.arg)
      /\ ret'.arg.name \notin Presets(ret'.op))
     => (ret'.raised = "ValueError" /\ UNCHANGED fields)]_vars

(* draw_eccentricities('Gauss', emax = 'tidal') raised on a population    *)
(* with drawn periods and eccentricities                                   *)
C2_Witness ==
  /\ ret.op = "draw_eccentricities" /\ ret.raised = "ValueError"
  /\ IsNamed(ret.emax, {"tidal"})
  /\ \E i \in Idx : period[i] # LOne
  /\ \E i \in Idx : eccentricity[i] # 0

(* the projection of binary i from the eccentric anomaly E *)
ProjectOf(i, E, mass) ==
  Project(E, period[i], mass_ratio[i], eccentricity[i], theta[i], inclination[i], mass)

(* C3: velocity returns after at most 20 Newton-Raphson iterations without *)
(* raising, and what it projects is the last estimate of the loop, also    *)
(* when that estimate still moved by more than the tolerance.              *)
C3_IterationCap ==
  ret.op = "velocity" =>
    /\ ret.raised = ""
    /\ ret.out.count_iterations <= 20
    /\ \A i \in Idx :
         /\ ret.out.vlos[i] = ProjectOf(i, ret.out.ecc_anomaly[i], ret.mass).vlos
         /\ ret.out.vperp[i] = ProjectOf(i, ret.out.ecc_anomaly[i], ret.mass).vperp

(* the loop stopped by the cap with a binary still moving *)
C3_Witness ==
  /\ ret.op = "velocity" /\ ret.raised = ""
  /\ ret.out.count_iterations = 20
  /\ \E i \in Idx : Abs(ret.out.ecc_anomaly[i] - ret.out.old[i]) > ret.anomaly_offset

(* velocity of the first m binaries alone, with the arguments of the call *)
VelocityAlone(m) == VelocityOf(Slice(self, m), ret.mass, ret.time, ret.anomaly_offset)

(* n Newton-Raphson steps of one binary from E *)
RECURSIVE NewtonSteps(_, _, _, _)
NewtonSteps(E, e, M, n) ==
  IF n = 0 THEN E ELSE NewtonSteps(NewtonStep(E, e, M), e, M, n - 1)

(* C4 as stated: velocity on the first M binaries alone gives each of them *)
(* the result velocity on the whole population gives.                      *)
C4_SliceSame ==
  ret.op = "velocity" =>
    \A m \in Idx : \A i \in 1..m :
      /\ VelocityAlone(m).ecc_anomaly[i] = ret.out.ecc_anomaly[i]
      /\ VelocityAlone(m).vlos[i] = ret.out.vlos[i]
      /\ VelocityAlone(m).vperp[i] = ret.out.vperp[i]

(* C4: the eccentric anomaly of a binary is count_iterations Newton-Raphson *)
(* steps from its own mean anomaly, where count_iterations is the count of *)
(* the whole population; the velocities follow from it and the binary's    *)
(* own fields; a slice that iterates as often gives the same result.       *)
C4_OwnFieldsAndCount ==
  ret.op = "velocity" =>
    /\ \A i \in Idx :
         /\ ret.out.ecc_anomaly[i] =
              NewtonSteps(MeanAnomaly(phase[i], period[i], ret.time), eccentricity[i],
                          MeanAnomaly(phase[i], period[i], ret.time), ret.out.count_iterations)
         /\ ret.out.vlos[i] = ProjectOf(i, ret.out.ecc_anomaly[i], ret.mass).vlos
         /\ ret.out.vperp[i] = ProjectOf(i, ret.out.ecc_anomaly[i], ret.mass).vperp
    /\ \A m \in Idx :
         VelocityAlone(m).count_iterations = ret.out.count_iterations =>
           \A i \in 1..m : /\ VelocityAlone(m).ecc_anomaly[i] = ret.out.ecc_anomaly[i]
                           /\ VelocityAlone(m).vlos[i] = ret.out.vlos[i]
                           /\ VelocityAlone(m).vperp[i] = ret.out.vperp[i]

(* the first binary alone stops earlier than the whole population and ends *)
(* at another eccentric anomaly                                            *)
C4_Witness ==
  /\ ret.op = "velocity"
  /\ VelocityAlone(1).count_iterations < ret.out.count_iterations
  /\ VelocityAlone(1).ecc_anomaly[1] # ret.out.ecc_anomaly[1]

(* C5 as stated: after a draw from a named preset with default bounds      *)
(* every period is > 0 and every mass ratio is in (0, 1].                  *)
C5_Ranges ==
  /\ (/\ ret.op = "draw_period" /\ ret.raised = "" /\ IsString(ret.arg) /\ IsNone(ret.pmax))
       => \A i \in Idx : period[i].s = 1
  /\ (/\ ret.op = "draw_mass_ratio" /\ ret.raised = "" /\ IsString(ret.arg)
       /\ IsNone(ret.qmin) /\ IsNone(ret.qmax))
       => \A i \in Idx : 0 < mass_ratio[i] /\ mass_ratio[i] <= SC

(* draw_mass_ratio('flat') has returned and a binary has mass ratio 0 *)
C5_Witness ==
  /\ ret.op = "draw_mass_ratio" /\ ret.raised = "" /\ IsNamed(ret.arg, {"flat"})
  /\ \E i \in Idx : mass_ratio[i] = 0

(* C6 as stated: after draw_period with a log-normal preset and a pmax in  *)
(* years every period is at most pmax.                                     *)
C6_PmaxTruncates ==
  (/\ ret.op = "draw_period" /\ ret.raised = ""
   /\ IsNamed(ret.arg, {"Raghavan10", "DM91"}) /\ ~IsNone(ret.pmax))
  => \A i \in Idx : LLeq(period[i], LFromFx(ret.pmax.value))

(* a log-normal draw with pmax = 1 year has left a period above 1 year *)
C6_Witness ==
  /\ ret.op = "draw_period" /\ ret.raised = ""
  /\ IsNamed(ret.arg, {"Raghavan10", "DM91"}) /\ ~IsNone(ret.pmax)
  /\ \E i \in Idx : LLess(LFromFx(ret.pmax.value), period[i])

(* C7: right after draw_eccentricities('flat' or 'thermal', emin, 'tidal') *)
(* every eccentricity is at least emin and at most the tidal cap of the    *)
(* binary's current period.                                                *)
C7_TidalCap ==
  (/\ ret.op = "draw_eccentricities" /\ ret.raised = ""
   /\ IsNamed(ret.arg, {"flat", "thermal"}) /\ IsNamed(ret.emax, {"tidal"}))
  => \A i \in Idx : /\ ret.emin <= eccentricity[i]
                    /\ eccentricity[i] <= TidalEmax(period[i], ret.emin)

(* a tidal draw with emin > 0 on drawn periods: one binary above emin, and *)
(* one whose cap is emin itself                                            *)
C7_Witness ==
  /\ ret.op = "draw_eccentricities" /\ ret.raised = ""
  /\ IsNamed(ret.arg, {"flat", "thermal"}) /\ IsNamed(ret.emax, {"tidal"})
  /\ ret.emin > 0
  /\ \E i \in Idx : period[i] # LOne /\ eccentricity[i] > ret.emin
  /\ \E i \in Idx : TidalEmax(period[i], ret.emin) = ret.emin /\ eccentricity[i] = ret.emin

(* the number of entries of the boolean sequence sq equal to b *)
CountOf(sq, b) == Cardinality({k \in DOMAIN sq : sq[k] = b})

(* line 340 for the observations of one star *)
VariableStar(mult_vel, mult_sigvel, pfalse) ==
  LET weight == [k \in DOMAIN mult_vel |-> LDiv(LOne, LSq(mult_sigvel[k]))]
  IN  /\ Len(mult_vel) > 1
      /\ ChiSqProbBelow(ChiSq(mult_vel, WeightedMean(mult_vel, weight, LSum(weight)), weight),
                        Len(mult_vel) - 1, pfalse)

(* C8: multi_epoch on S stars returns S flags, star k's flag at place k;   *)
(* the number of true flags is the length of vmean, sigmean, single_mass   *)
(* and pdet_single and the number of histograms in pbin; the number of     *)
(* false flags is the length of pdet_rvvar.                                *)
C8_FlagCounts ==
  (ret.op = "multi_epoch" /\ ret.raised = "")
  => /\ Len(ret.out.is_single) = Len(ret.args.velocity)
     /\ \A k \in DOMAIN ret.out.is_single :
          ret.out.is_single[k] =
            ~VariableStar(ret.args.velocity[k], ret.args.sigvel[k], ret.args.pfalse)
     /\ Len(ret.out.vmean) = CountOf(ret.out.is_single, TRUE)
     /\ Len(ret.out.sigmean) = CountOf(ret.out.is_single, TRUE)
     /\ Len(ret.out.single_mass) = CountOf(ret.out.is_single, TRUE)
     /\ Len(ret.out.pdet_single) = CountOf(ret.out.is_single, TRUE)
     /\ (IF ret.out.pbin = <<>> THEN 0 ELSE Len(ret.out.pbin[1]))
          = CountOf(ret.out.is_single, TRUE)
     /\ Len(ret.out.pdet_rvvar) = CountOf(ret.out.is_single, FALSE)

(* a catalogue in which a variable star comes before a single one *)
C8_Witness ==
  /\ ret.op = "multi_epoch" /\ ret.raised = ""
  /\ \E j, k \in DOMAIN ret.out.is_single :
       j < k /\ ~ret.out.is_single[j] /\ ret.out.is_single[k]
  /\ Len(ret.out.pbin) = Len(ret.out.vbound) - 1
  /\ Len(ret.out.pdet_rvvar) >= 1

(* C9: a star with exactly one observation is flagged single whatever      *)
(* pfalse is, its entries of vmean and sigmean are its observed velocity   *)
(* and uncertainty, and its entry of pdet_single is 0.                     *)
C9_OneObservation ==
  (ret.op = "multi_epoch" /\ ret.raised = "")
  => \A k \in DOMAIN ret.args.dates :
       Len(ret.args.dates[k]) = 1
       => /\ k \in DOMAIN ret.out.is_single
          /\ ret.out.is_single[k]
          /\ LET at == Cardinality({j \in 1..k : ret.out.is_single[j]})
             IN  /\ at \in DOMAIN ret.out.vmean
                 /\ ret.out.vmean[at] = ret.args.velocity[k][1]
                 /\ ret.out.sigmean[at] = ret.args.sigvel[k][1]
                 /\ ret.out.pdet_single[at] = 0

(* pfalse above 1, so that every tested star is variable, in a catalogue   *)
(* with a star of one observation and an uncertainty other than 1          *)
C9_Witness ==
  /\ ret.op = "multi_epoch" /\ ret.raised = "" /\ ret.args.pfalse > SC
  /\ \E k \in DOMAIN ret.args.dates :
       Len(ret.args.dates[k]) = 1 /\ ret.args.sigvel[k][1] # LOne
  /\ \E k \in DOMAIN ret.out.is_single : ~ret.out.is_single[k]

(* the number of bin edges single_epoch used in its last call *)
EdgeCount ==
  Len(VBordOf(ret.out.vel[Len(ret.out.vel)], ret.log_minv, ret.log_maxv, ret.log_stepv))

(* C10 as stated: from n >= 1 bin edges single_epoch builds 2n + 1         *)
(* boundaries, strictly increasing, symmetric about a middle 0, and 2n     *)
(* densities, each >= 0, mirror-symmetric.                                 *)
C10_Table ==
  (/\ ret.op = "single_epoch" /\ ret.raised = "" /\ ret.log_stepv > 0 /\ EdgeCount >= 1)
  => /\ Len(ret.out.vbound) = 2 * EdgeCount + 1
     /\ Len(ret.out.prob) = 2 * EdgeCount
     /\ \A i \in 1..(2 * EdgeCount) : LLess(ret.out.vbound[i], ret.out.vbound[i + 1])
     /\ \A i \in 1..(2 * EdgeCount + 1) :
          ret.out.vbound[i] = LNeg(ret.out.vbound[2 * EdgeCount + 2 - i])
     /\ ret.out.vbound[EdgeCount + 1] = LZero
     /\ \A j \in 1..(2 * EdgeCount) :
          /\ LLeq(LZero, ret.out.prob[j])
          /\ ret.out.prob[j] = ret.out.prob[2 * EdgeCount + 1 - j]

(* single_epoch on a population with a binary of mass ratio 0: the density *)
(* of the two middle bins is nan                                           *)
C10_Witness ==
  /\ ret.op = "single_epoch" /\ ret.raised = "" /\ EdgeCount >= 1
  /\ \E i \in Idx : mass_ratio[i] = 0
  /\ ret.out.prob[EdgeCount].s = 2 /\ ret.out.prob[EdgeCount + 1].s = 2

(* rv[t, i] of the array fake_dataset returned, before sp.squeeze *)
RvAt(t, i) ==
  IF Len(ret.args.dates) = 1 /\ ret.args.nvel = 1 THEN ret.out.rv
  ELSE IF Len(ret.args.dates) = 1 THEN ret.out.rv[i]
  ELSE IF ret.args.nvel = 1 THEN ret.out.rv[t]
  ELSE ret.out.rv[t][i]

(* the eccentric anomalies the first nvel binaries end with at date t *)
AnomalyOfFirst(nvel, t) ==
  KeplerFrom([i \in 1..nvel |-> MeanAnomaly(phase[i], period[i], t)],
             [i \in 1..nvel |-> eccentricity[i]], 10).ecc_anomaly

(* C11: in fake_dataset a star not flagged has orbital offset 0 at every   *)
(* epoch and a flagged star the line-of-sight velocity of the binary of    *)
(* its index among the first nvel; with fbin = 0 no star is flagged and rv *)
(* is v_systematic + v_meas_offset; with fbin = 1, vdisp = 0 and           *)
(* sigvel = 0 every star is flagged and rv is the orbital offset.          *)
C11_Offsets ==
  (ret.op = "fake_dataset" /\ ret.raised = "")
  => \A t \in DOMAIN ret.args.dates : \A i \in 1..ret.args.nvel :
       /\ ~ret.out.bin_index[i] => ret.out.v_bin_offset[t][i] = LZero
       /\ ret.out.bin_index[i]
          => ret.out.v_bin_offset[t][i]
               = ProjectOf(i, AnomalyOfFirst(ret.args.nvel, ret.args.dates[t])[i],
                           ret.args.mass).vlos
       /\ ret.args.fbin = 0
          => /\ ~ret.out.bin_index[i]
             /\ RvAt(t, i) = LAdd(ret.out.v_systematic[i], ret.out.v_meas_offset[t][i])
       /\ (ret.args.fbin = SC /\ ret.args.vdisp = 0 /\ ret.args.sigvel = 0)
          => /\ ret.out.bin_index[i]
             /\ RvAt(t, i) = ret.out.v_bin_offset[t][i]

(* two epochs of two stars, one flagged with a nonzero offset and one not, *)
(* on a population with drawn eccentricities                               *)
C11_Witness ==
  /\ ret.op = "fake_dataset" /\ ret.raised = ""
  /\ Len(ret.args.dates) = 2 /\ ret.args.nvel = NBin
  /\ \E i \in Idx : eccentricity[i] > 0
  /\ \E i, j \in 1..ret.args.nvel :
       /\ ret.out.bin_index[i] /\ ret.out.v_bin_offset[2][i].s \in {-1, 1}
       /\ ~ret.out.bin_index[j] /\ ret.out.v_bin_offset[2][j] = LZero

(* the positive bin edges of the last single_epoch call *)
Edges ==
  VBordOf(ret.out.vel[Len(ret.out.vel)], ret.log_minv, ret.log_maxv, ret.log_stepv)

BinLower(ix) == IF ix = 1 THEN LZero ELSE Edges[ix - 1]

BinUpper(ix) == Edges[ix]

(* the number of sorted speeds below x *)
SpeedsBelow(x) == Cardinality({j \in DOMAIN ret.out.vel : LLess(ret.out.vel[j], x)})

(* the sum of (v - lower) / v over the speeds v of bin ix, in ascending order *)
BinSum(ix) ==
  LSum([m \in 1..(SpeedsBelow(BinUpper(ix)) - SpeedsBelow(BinLower(ix))) |->
          LDiv(LSub(ret.out.vel[SpeedsBelow(BinLower(ix)) + m], BinLower(ix)),
               ret.out.vel[SpeedsBelow(BinLower(ix)) + m])])

(* the sum of 1 / v over the speeds at or above the upper edge of bin ix,  *)
(* from the largest speed down; 0 when there is none                       *)
TailWeight(ix) ==
  LSum([m \in 1..(Len(ret.out.vel) - SpeedsBelow(BinUpper(ix))) |->
          LDiv(LOne, ret.out.vel[Len(ret.out.vel) + 1 - m])])

(* prob is pdist mirrored and divided by 2 and by N *)
MirroredHalves ==
  \A ix \in 1..EdgeCount :
    /\ ret.out.prob[EdgeCount + ix]
         = LDiv(LDiv(ret.out.pdist[ix], LFromFx(2 * SC)), LFromFx(Len(ret.out.vel) * SC))
    /\ ret.out.prob[EdgeCount + 1 - ix] = ret.out.prob[EdgeCount + ix]

(* C12 as stated: the half density of a bin is (bin sum + tail correction) *)
(* / (upper - lower), then mirrored and divided by 2 * N.                  *)
C12_TailInside ==
  (ret.op = "single_epoch" /\ ret.raised = "")
  => /\ Len(ret.out.pdist) = EdgeCount
     /\ \A ix \in 1..EdgeCount :
          ret.out.pdist[ix] = LDiv(LAdd(BinSum(ix), TailWeight(ix)),
                                   LSub(BinUpper(ix), BinLower(ix)))
     /\ MirroredHalves

(* C12: the half density of a bin is the tail correction plus (bin sum /   *)
(* (upper - lower)): only the bin sum is divided by the bin width; the     *)
(* result is then mirrored and divided by 2 * N.                           *)
C12_TailOutside ==
  (ret.op = "single_epoch" /\ ret.raised = "")
  => /\ Len(ret.out.pdist) = EdgeCount
     /\ \A ix \in 1..EdgeCount :
          ret.out.pdist[ix] = LAdd(TailWeight(ix),
                                   LDiv(BinSum(ix), LSub(BinUpper(ix), BinLower(ix))))
     /\ MirroredHalves

(* a bin of width other than 1 that holds a speed and has a larger speed   *)
(* at or above its upper edge                                              *)
C12_Witness ==
  /\ ret.op = "single_epoch" /\ ret.raised = ""
  /\ \A i \in Idx : mass_ratio[i] > 0
  /\ \E ix \in 1..EdgeCount :
       /\ SpeedsBelow(BinLower(ix)) < SpeedsBelow(BinUpper(ix))
       /\ SpeedsBelow(BinUpper(ix)) < Len(ret.out.vel)
       /\ LSub(BinUpper(ix), BinLower(ix)) # LOne
       /\ ret.out.pdist[ix].s = 1
====
